---- MODULE Spec2Model ----
(***************************************************************************)
(* A model of the LLM orchestration subsystem of nexus-ai:                 *)
(*   - the document chunker            (services/rag_service.py)           *)
(*   - the safe expression evaluator   (services/agent_service.py)         *)
(*   - the agent loop and its tools    (services/agent_service.py)         *)
(*   - the indexing pipeline           (services/rag_service.py)           *)
(*   - the context assembler           (services/rag_service.py)           *)
(*   - the model router                (services/model_router.py)          *)
(* Each part has its own specifications (SpecChunk, SpecEval, SpecAgent,   *)
(* SpecRead, SpecIndex, SpecContext, SpecRoute, SpecLearn, ...); the       *)
(* variables of the other parts stay at their initial values under them.   *)
(***************************************************************************)
EXTENDS Integers, Sequences, FiniteSets, TLC

VARIABLES
    \* ---- chunker (RAGService._chunk_text) ----
    text,            \* the text argument, a sequence of characters
    chunk_size_arg,  \* the chunk_size argument as passed by the caller
    overlap_arg,     \* the overlap argument as passed by the caller
    chunk_size,      \* local chunk_size after line 63
    overlap,         \* local overlap after line 64
    start,           \* local start
    chunks,          \* local chunks: sequence of <<chunk, start_pos, end_pos>>
    ck_pc,           \* "call" | "loop" | "returned"
    \* ---- safe expression evaluator (safe_math_eval) ----
    expression,      \* the parsed expression (tree.body), a syntax tree
    ev_pc,           \* "call" | "done"
    ev_result,       \* what the call did: a returned value or a raised error
    \* ---- agent loop (AgentService.run_agent) ----
    max_iterations,  \* the max_iterations argument
    iteration,       \* local iteration
    messages,        \* local messages
    full_response,   \* local full_response of the latest model turn
    tool_calls,      \* local tool_calls of the latest model turn
    tc_idx,          \* position of the for loop of line 340 in tool_calls
    events,          \* everything the generator has yielded, in order
    ag_pc,           \* "loop" (line 309) | "tools" (line 340) | "ended"
    ag_end,          \* how the generator ended: "return" | "exhausted" | "exception"
    endpoint,        \* what the inference endpoint did in the latest turn
    turns,           \* number of chat_stream calls started
    \* ---- indexing pipeline (RAGService index, delete, reindex) ----
    documents,       \* the documents table: row i is the Document with id i
    collection,      \* the entries of the retrieval index (ChromaDB collection)
    index_calls,     \* the calls of the pipeline: arguments, locals, position, outcome
    files,           \* the text extracted from the file at each path
    \* ---- context assembler (RAGService.get_context_for_query) ----
    results,         \* the ranked list that search returned
    max_tokens,      \* argument max_tokens
    context_parts,   \* local context_parts
    documents_used,  \* local documents_used
    current_tokens,  \* local current_tokens
    cx_i,            \* position of the for loop of line 260 in results
    cx_pc,           \* position of a get_context_for_query call
    context,         \* the returned pair (context, titles)
    \* ---- model router (ModelRouter) ----
    query,           \* argument of the latest analyze_query call
    decision,        \* what that call returned
    user_preferences, \* ModelRouter.user_preferences
    usage_log,       \* the committed override rows of ModelUsageLog, oldest first
    learn_calls,     \* the learn_from_override calls: arguments, locals, position
    \* ---- file read tool (FileReadTool.execute) ----
    rf_path,         \* the file_path argument: a sequence of path components
    rf_kind,         \* what lies at the resolved path: "missing" | "file" | "unreadable"
    rf_pc,           \* "call" | "done"
    rf_result        \* the returned dictionary

chunkVars == <<text, chunk_size_arg, overlap_arg, chunk_size, overlap, start, chunks, ck_pc>>

evalVars == <<expression, ev_pc, ev_result>>

agentVars == <<max_iterations, iteration, messages, full_response, tool_calls, tc_idx,
               events, ag_pc, ag_end, endpoint, turns>>

indexVars == <<documents, collection, index_calls, files>>

contextVars == <<results, max_tokens, context_parts, documents_used, current_tokens,
                 cx_i, cx_pc, context>>

routerVars == <<query, decision, user_preferences, usage_log, learn_calls>>

toolVars == <<rf_path, rf_kind, rf_pc, rf_result>>

vars == <<chunkVars, evalVars, agentVars, indexVars, contextVars, routerVars, toolVars>>

\* the variables each part leaves alone
notChunk == <<evalVars, agentVars, indexVars, contextVars, routerVars, toolVars>>
notEval == <<chunkVars, agentVars, indexVars, contextVars, routerVars, toolVars>>
notAgent == <<chunkVars, evalVars, indexVars, contextVars, routerVars, toolVars>>
notIndex == <<chunkVars, evalVars, agentVars, contextVars, routerVars, toolVars>>
notContext == <<chunkVars, evalVars, agentVars, indexVars, routerVars, toolVars>>
notRouter == <<chunkVars, evalVars, agentVars, indexVars, contextVars, toolVars>>
notTool == <<chunkVars, evalVars, agentVars, indexVars, contextVars, routerVars>>

(***************************************************************************)
(* Bounds of the model.                                                    *)
(***************************************************************************)
MaxLen == 6        \* longest text given to the chunker
MaxSize == 5       \* largest chunk_size / overlap argument
MaxChunks == 8     \* the windowing loop is followed until it holds this many chunks
MaxIterations == 2 \* largest max_iterations argument given to run_agent
MaxCalls == 2      \* number of calls made to the indexing pipeline
MaxResults == 3    \* longest ranked list that search returns
MaxTokens == 3     \* largest max_tokens argument of get_context_for_query
MaxQueryLen == 3   \* longest query given to analyze_query, in words
MaxHistory == 4    \* rows of the override log when the process starts
MaxLearnCalls == 3 \* number of learn_from_override calls
ManyCalls == 12    \* number of learn_from_override calls of SpecLearnSeq
MaxPathLen == 3    \* longest file_path given to the read_file tool, in components
LongLen == 8       \* length of the texts of SpecChunkLong
LongSize == 7      \* chunk_size of SpecChunkLong
BreakSize == 9     \* chunk_size of SpecChunkBreak
BreakTail == 5     \* length of the free tail of the texts of SpecChunkBreak

\* the value of a variable that holds nothing yet
None == "None"

\* the evaluator at rest, under the specifications of the other parts
EvalIdle ==
    /\ expression = None
    /\ ev_pc = "idle"
    /\ ev_result = None

\* the agent loop at rest, under the specifications of the other parts
AgentIdle ==
    /\ max_iterations = 0
    /\ iteration = 0
    /\ messages = << >>
    /\ full_response = << >>
    /\ tool_calls = << >>
    /\ tc_idx = 0
    /\ events = << >>
    /\ ag_pc = "idle"
    /\ ag_end = None
    /\ endpoint = None
    /\ turns = 0

\* the indexing pipeline at rest, under the specifications of the other parts
IndexIdle ==
    /\ documents = << >>
    /\ collection = {}
    /\ index_calls = << >>
    /\ files = << >>

\* the context assembler at rest, under the specifications of the other parts
ContextIdle ==
    /\ results = << >>
    /\ max_tokens = 0
    /\ context_parts = << >>
    /\ documents_used = {}
    /\ current_tokens = 0
    /\ cx_i = 0
    /\ cx_pc = "idle"
    /\ context = None

\* no routing decision was made yet
NoDecision == [call |-> "none"]

\* the model router at rest, under the specifications of the other parts
RouterIdle ==
    /\ query = << >>
    /\ decision = NoDecision
    /\ user_preferences = << >>
    /\ usage_log = << >>
    /\ learn_calls = << >>

\* the file read tool at rest, under the specifications of the other parts
ToolIdle ==
    /\ rf_path = << >>
    /\ rf_kind = None
    /\ rf_pc = "idle"
    /\ rf_result = None

OthersIdleForChunk ==
    EvalIdle /\ AgentIdle /\ IndexIdle /\ ContextIdle /\ RouterIdle /\ ToolIdle

(***************************************************************************)
(* Program constants.                                                      *)
(***************************************************************************)
CHUNK_SIZE == 1000
CHUNK_OVERLAP == 200

(***************************************************************************)
(* Python string primitives, on sequences of one-character strings with    *)
(* Python's 0-based positions.                                             *)
(***************************************************************************)
SetMax(S) == CHOOSE x \in S : \A y \in S : y <= x
SetMin(S) == CHOOSE x \in S : \A y \in S : x <= y
Min2(a, b) == IF a <= b THEN a ELSE b

\* Python's adjustment of a slice index against a length n: a negative index
\* counts from the end and is clipped at 0, a large one is clipped at n.
AdjustIdx(i, n) ==
    IF i < 0 THEN (IF i + n < 0 THEN 0 ELSE i + n)
    ELSE IF i > n THEN n ELSE i

\* s[i:j]
PySlice(s, i, j) ==
    LET a == AdjustIdx(i, Len(s))
        b == AdjustIdx(j, Len(s))
    IN IF a >= b THEN << >> ELSE SubSeq(s, a + 1, b)

\* s.rfind(sub, i, j): the highest position in the adjusted range where sub
\* occurs entirely inside it, or -1.
RFind(s, sub, i, j) ==
    LET a == AdjustIdx(i, Len(s))
        b == AdjustIdx(j, Len(s))
        hits == {k \in a..(b - Len(sub)) : SubSeq(s, k + 1, k + Len(sub)) = sub}
    IN IF hits = {} THEN -1 ELSE SetMax(hits)

IsSpace(c) == c \in {" ", "\n"}

\* s.strip()
Strip(s) ==
    LET keep == {k \in 1..Len(s) : ~IsSpace(s[k])}
    IN IF keep = {} THEN << >> ELSE SubSeq(s, SetMin(keep), SetMax(keep))

(***************************************************************************)
(* RAGService._chunk_text                                                  *)
(***************************************************************************)
\* a word character, a sentence end and a line break: enough for a sentence
\* break (".\n"), a paragraph break ("\n\n") and a blank window
Alphabet == {"a", ".", "\n"}
Texts == UNION {[1..n -> Alphabet] : n \in 0..MaxLen}
LongTexts == [1..LongLen -> Alphabet]

PARA == <<"\n", "\n">>
\* the list of line 81, in its order
PUNCTS == << <<".", " ">>, <<"!", " ">>, <<"?", " ">>,
             <<".", "\n">>, <<"!", "\n">>, <<"?", "\n">> >>

text_len == Len(text)

\* lines 81-85: the first punct of the list whose last occurrence in the
\* window lies past the midpoint decides the end; else the raw end stays.
RECURSIVE SentenceEnd(_, _, _, _, _)
SentenceEnd(t, st, end, size, i) ==
    IF i > Len(PUNCTS) THEN end
    ELSE LET sent_break == RFind(t, PUNCTS[i], st, end)
         IN IF sent_break > st + (size \div 2)
            THEN sent_break + Len(PUNCTS[i])
            ELSE SentenceEnd(t, st, end, size, i + 1)

\* lines 71-85: the end of the window that starts at st
WindowEnd(t, st, size) ==
    LET end == st + size
    IN IF end < Len(t)
       THEN LET para_break == RFind(t, PARA, st, end)
            IN IF para_break > st + (size \div 2)
               THEN para_break + 2
               ELSE SentenceEnd(t, st, end, size, 1)
       ELSE end

\* a sign slip in line 91: the next window starts past the end of this one
NextStartPastEnd(end, ov) == end + ov

\* line 91: the start of the next window
NextStart(end, ov) == end - ov

\* line 63 / line 64: `x or default`
OrDefault(x, default) == IF x = 0 THEN default ELSE x

\* the chunker at rest, under the specifications of the other parts
ChunkIdle ==
    /\ text = << >>
    /\ chunk_size_arg = 0
    /\ overlap_arg = 0
    /\ chunk_size = 0
    /\ overlap = 0
    /\ start = 0
    /\ chunks = << >>
    /\ ck_pc = "idle"

RECURSIVE ChunkLoop(_, _, _, _, _)
\* lines 70-93 as a whole, from a start and the chunks so far
ChunkLoop(t, size, ov, st, chs) ==
    IF st < Len(t) /\ Len(chs) < MaxChunks
    THEN LET end == WindowEnd(t, st, size)
             chunk == Strip(PySlice(t, st, end))
         IN ChunkLoop(t, size, ov, NextStart(end, ov),
                      IF chunk # << >> THEN Append(chs, <<chunk, st, Min2(end, Len(t))>>)
                      ELSE chs)
    ELSE chs

\* _chunk_text(text) with chunk_size and overlap left at None (line 155)
ChunkTextDefault(t) == ChunkLoop(t, CHUNK_SIZE, CHUNK_OVERLAP, 0, << >>)

ChunkInit ==
    /\ OthersIdleForChunk
    /\ text \in Texts
    /\ chunk_size_arg \in 1..MaxSize
    /\ overlap_arg \in 0..MaxSize
    /\ chunk_size = 0
    /\ overlap = 0
    /\ start = 0
    /\ chunks = << >>
    /\ ck_pc = "call"

\* lines 63-68
ChunkEnter ==
    /\ ck_pc = "call"
    /\ chunk_size' = OrDefault(chunk_size_arg, CHUNK_SIZE)
    /\ overlap' = OrDefault(overlap_arg, CHUNK_OVERLAP)
    /\ chunks' = << >>
    /\ start' = 0
    /\ ck_pc' = "loop"
    /\ UNCHANGED <<text, chunk_size_arg, overlap_arg>>
    /\ UNCHANGED notChunk

\* lines 70-91: one pass of the while body
ChunkWindow ==
    /\ ck_pc = "loop"
    /\ start < text_len
    /\ Len(chunks) < MaxChunks
    /\ LET end == WindowEnd(text, start, chunk_size)
           chunk == Strip(PySlice(text, start, end))
       IN /\ chunks' = IF chunk # << >>
                       THEN Append(chunks, <<chunk, start, Min2(end, text_len)>>)
                       ELSE chunks
          /\ start' = NextStart(end, overlap)
    /\ UNCHANGED <<text, chunk_size_arg, overlap_arg, chunk_size, overlap, ck_pc>>
    /\ UNCHANGED notChunk

\* line 70 (condition false) and line 93
ChunkReturn ==
    /\ ck_pc = "loop"
    /\ ~(start < text_len)
    /\ ck_pc' = "returned"
    /\ UNCHANGED <<text, chunk_size_arg, overlap_arg, chunk_size, overlap, start, chunks>>
    /\ UNCHANGED notChunk

ChunkNext == ChunkEnter \/ ChunkWindow \/ ChunkReturn

SpecChunk == ChunkInit /\ [][ChunkNext]_vars

\* The same operation on longer texts with one large chunk_size and every
\* overlap 1 .. chunk_size - 1.
ChunkLongInit ==
    /\ OthersIdleForChunk
    /\ text \in LongTexts
    /\ chunk_size_arg = LongSize
    /\ overlap_arg \in 1..(LongSize - 1)
    /\ chunk_size = 0
    /\ overlap = 0
    /\ start = 0
    /\ chunks = << >>
    /\ ck_pc = "call"

SpecChunkLong == ChunkLongInit /\ [][ChunkNext]_vars

(***************************************************************************)
(* Claims about the chunker.                                               *)
(***************************************************************************)
\* position p (0-based) lies in the [start, end) range of some returned chunk
Covered(p) == \E i \in 1..Len(chunks) : chunks[i][2] <= p /\ p < chunks[i][3]

\* C6: with 0 <= overlap < size, every pass of the windowing loop leaves the
\* next window's start strictly after the start of the window it just cut.
C6_WindowsAdvance ==
    [][(ck_pc = "loop" /\ start < text_len /\ overlap_arg < chunk_size_arg)
         => start' > start]_vars

\* C7: called with overlap >= size, _chunk_text fails before the windowing
\* loop is entered: it never cuts a window, so it never holds a chunk.
C7_BadConfigFailsFast ==
    overlap_arg >= chunk_size_arg => chunks = << >>

\* C8 as claimed: with size > overlap >= 0 the ranges of the returned chunks
\* cover every character position of the text.
C8_CoverAll ==
    (ck_pc = "returned" /\ overlap_arg < chunk_size_arg)
        => \A p \in 0..(text_len - 1) : Covered(p)

\* C8 as amended: with size > overlap >= 0 the ranges of the returned chunks
\* cover every position of the text that holds a non-whitespace character.
C8_CoverNonBlank ==
    (ck_pc = "returned" /\ overlap_arg < chunk_size_arg)
        => \A p \in 0..(text_len - 1) : ~IsSpace(text[p + 1]) => Covered(p)

\* a returned run of several chunks that dropped a blank window
C8_Witness ==
    /\ ck_pc = "returned"
    /\ overlap_arg < chunk_size_arg
    /\ Len(chunks) >= 2
    /\ \E p \in 0..(text_len - 1) : IsSpace(text[p + 1]) /\ ~Covered(p)

\* C9: a non-blank text shorter than size (overlap < size) comes back as
\* exactly one chunk.
C9_ShortTextOneChunk ==
    (/\ ck_pc = "returned"
     /\ Strip(text) # << >>
     /\ text_len < chunk_size_arg
     /\ overlap_arg < chunk_size_arg)
        => Len(chunks) = 1

\* The same operation on texts that can hold two kinds of sentence break and
\* a paragraph break past the midpoint of one window: a run of word
\* characters up to the midpoint, then every tail over BreakAlphabet.
BreakAlphabet == {"a", ".", "!", " ", "\n"}
BreakTexts ==
    {[i \in 1..(BreakSize \div 2 + 1) |-> "a"] \o tail : tail \in [1..BreakTail -> BreakAlphabet]}

ChunkBreakInit ==
    /\ OthersIdleForChunk
    /\ text \in BreakTexts
    /\ chunk_size_arg = BreakSize
    /\ overlap_arg \in 1..2
    /\ chunk_size = 0
    /\ overlap = 0
    /\ start = 0
    /\ chunks = << >>
    /\ ck_pc = "call"

SpecChunkBreak == ChunkBreakInit /\ [][ChunkNext]_vars

\* the positions (0-based) past the midpoint of the window [st, st + size)
\* where one of the two-character marks lies entirely inside the window
BreaksPastMidpoint(t, st, size, marks) ==
    {p \in (st + (size \div 2) + 1)..(st + size - 2) :
        p + 2 <= Len(t) /\ <<t[p + 1], t[p + 2]>> \in marks}

\* the end of the window as C26 describes it
NearestBreakEnd(t, st, size) ==
    LET end == st + size
        paras == BreaksPastMidpoint(t, st, size, {PARA})
        sents == BreaksPastMidpoint(t, st, size, {PUNCTS[i] : i \in 1..Len(PUNCTS)})
    IN IF ~(end < Len(t)) THEN end
       ELSE IF paras # {} THEN SetMax(paras) + 2
       ELSE IF sents # {} THEN SetMax(sents) + 2
       ELSE end

\* C26: a window whose raw end lies before the end of the text ends after the
\* last paragraph break past its midpoint if there is one; else after the
\* sentence break (punctuation and whitespace) past the midpoint that is
\* nearest to the raw end, whichever mark it is; else at the raw end.
C26_RewindNearest ==
    [][(ck_pc = "loop" /\ start >= 0 /\ start < text_len)
         => start' = NearestBreakEnd(text, start, chunk_size) - overlap]_vars

(***************************************************************************)
(* SafeMathEvaluator / safe_math_eval                                      *)
(*                                                                         *)
(* A syntax-tree node is a record                                          *)
(*   kind  the ast class: "Constant", "Name", "Attribute", "BinOp",        *)
(*         "UnaryOp", "Call"                                               *)
(*   tag   Constant: the Python type of node.value; Name: node.id;         *)
(*         BinOp / UnaryOp: the class of node.op; Call: the id of          *)
(*         node.func when that is an ast.Name                              *)
(*   fname Call: whether node.func is an ast.Name                          *)
(*   val   Constant: node.value, for the numeric types                     *)
(*   kids  BinOp: <<left, right>>; UnaryOp: <<operand>>; Call: node.args;  *)
(*         Attribute: <<value>>                                            *)
(*   kws   Call: the values of node.keywords                               *)
(* A number is an exact fraction n/d (d > 0) with Python's int/float type. *)
(***************************************************************************)
Node(kind, tag, fname, val, kids, kws) ==
    [kind |-> kind, tag |-> tag, fname |-> fname, val |-> val, kids |-> kids, kws |-> kws]
Const(type, v) == Node("Constant", type, FALSE, v, << >>, << >>)
NameNode(id) == Node("Name", id, FALSE, 0, << >>, << >>)
Attribute(value) == Node("Attribute", "attr", FALSE, 0, <<value>>, << >>)
BinOp(op, left, right) == Node("BinOp", op, FALSE, 0, <<left, right>>, << >>)
UnaryOp(op, operand) == Node("UnaryOp", op, FALSE, 0, <<operand>>, << >>)
Call(fname, id, args, keywords) == Node("Call", id, fname, 0, args, keywords)

\* what a visit does: returns a number, or raises
Num(n, d, isfloat) == [ok |-> TRUE, n |-> n, d |-> d, float |-> isfloat, exact |-> TRUE]
\* a float or complex result the model does not carry the magnitude of
\* (the root of a non-square, the root of a negative number)
Opaque == [ok |-> TRUE, n |-> 0, d |-> 1, float |-> TRUE, exact |-> FALSE]
Raise == [ok |-> FALSE, n |-> 0, d |-> 1, float |-> FALSE, exact |-> TRUE]

Frac(n, d, isfloat) == IF d < 0 THEN Num(-n, -d, isfloat) ELSE Num(n, d, isfloat)
IsZero(a) == a.n = 0
IsIntegral(a) == a.n % a.d = 0
Less(a, b) == a.n * b.d < b.n * a.d
\* floor(a / b), b # 0
FloorQuot(a, b) ==
    LET num == a.n * b.d
        den == a.d * b.n
    IN IF den < 0 THEN (-num) \div (-den) ELSE num \div den

RECURSIVE IntPow(_, _)
IntPow(b, e) == IF e = 0 THEN 1 ELSE b * IntPow(b, e - 1)

\* the exact square root of a non-negative integer, or -1
IntSqrt(m) ==
    LET r == {k \in 0..m : k * k = m}
    IN IF r = {} THEN -1 ELSE CHOOSE k \in r : TRUE

\* a ** b
PyPow(a, b) ==
    IF ~IsIntegral(b)
    THEN \* only the exponent 1/2 is carried exactly
         IF b.n = 1 /\ b.d = 2 /\ a.n >= 0 /\ IntSqrt(a.n) >= 0 /\ IntSqrt(a.d) >= 0
         THEN Num(IntSqrt(a.n), IntSqrt(a.d), TRUE)
         ELSE Opaque
    ELSE LET e == b.n \div b.d
         IN IF e >= 0
            THEN Num(IntPow(a.n, e), IntPow(a.d, e), a.float \/ b.float)
            ELSE IF IsZero(a) THEN Raise        \* ZeroDivisionError
                 ELSE Frac(IntPow(a.d, -e), IntPow(a.n, -e), TRUE)

\* lines 67-77: the OPERATORS table
BinaryOperators == {"Add", "Sub", "Mult", "Div", "FloorDiv", "Mod", "Pow"}
UnaryOperators == {"USub", "UAdd"}
OPERATORS == BinaryOperators \cup UnaryOperators

\* operator.<op>(left, right) for the binary entries of the table
ApplyBinary(op, a, b) ==
    IF ~a.exact \/ ~b.exact THEN Opaque
    ELSE LET f == a.float \/ b.float IN
      CASE op = "Add" -> Num(a.n * b.d + b.n * a.d, a.d * b.d, f)
        [] op = "Sub" -> Num(a.n * b.d - b.n * a.d, a.d * b.d, f)
        [] op = "Mult" -> Num(a.n * b.n, a.d * b.d, f)
        [] op = "Div" -> IF IsZero(b) THEN Raise ELSE Frac(a.n * b.d, a.d * b.n, TRUE)
        [] op = "FloorDiv" -> IF IsZero(b) THEN Raise ELSE Num(FloorQuot(a, b), 1, f)
        [] op = "Mod" ->
             IF IsZero(b) THEN Raise
             ELSE LET q == FloorQuot(a, b)
                  IN Num(a.n * b.d - q * b.n * a.d, a.d * b.d, f)
        [] op = "Pow" -> PyPow(a, b)

\* operator.neg / operator.pos
ApplyUnary(op, a) ==
    IF ~a.exact THEN Opaque
    ELSE IF op = "USub" THEN Num(-a.n, a.d, a.float) ELSE a

\* round(x): to the nearest integer, ties to the even one
RoundHalfEven(a) ==
    LET q == a.n \div a.d
        r2 == 2 * (a.n - q * a.d)
    IN IF r2 < a.d THEN q
       ELSE IF r2 > a.d THEN q + 1
       ELSE IF q % 2 = 0 THEN q ELSE q + 1

RECURSIVE Extreme(_, _, _)
\* min(*args) / max(*args) over two or more numbers; the first wins a tie
Extreme(args, i, wantMax) ==
    IF i = 1 THEN args[1]
    ELSE LET best == Extreme(args, i - 1, wantMax)
         IN IF (wantMax /\ Less(best, args[i])) \/ (~wantMax /\ Less(args[i], best))
            THEN args[i] ELSE best

\* lines 79-86: the FUNCTIONS table
FUNCTIONS == {"abs", "round", "min", "max", "pow", "sqrt"}

\* FUNCTIONS[func_name](*args): a wrong number or type of arguments is a
\* TypeError
ApplyFunction(func_name, args) ==
    LET n == Len(args) IN
    IF \E i \in 1..n : ~args[i].exact THEN Opaque
    ELSE CASE func_name = "abs" ->
                IF n # 1 THEN Raise
                ELSE Num(IF args[1].n < 0 THEN -args[1].n ELSE args[1].n, args[1].d, args[1].float)
           [] func_name = "round" ->
                IF n = 1 THEN Num(RoundHalfEven(args[1]), 1, FALSE)
                ELSE IF n = 2 /\ ~args[2].float /\ args[2].n >= 0 /\ IsIntegral(args[1])
                     THEN args[1]
                ELSE IF n = 2 /\ ~args[2].float THEN Opaque
                ELSE Raise
           [] func_name = "min" -> IF n < 2 THEN Raise ELSE Extreme(args, n, FALSE)
           [] func_name = "max" -> IF n < 2 THEN Raise ELSE Extreme(args, n, TRUE)
           [] func_name = "pow" ->
                IF n = 2 THEN PyPow(args[1], args[2])
                ELSE IF n = 3 /\ (\A i \in 1..3 : ~args[i].float) /\ args[3].n # 0
                               /\ args[2].n >= 0
                     THEN ApplyBinary("Mod", PyPow(args[1], args[2]), args[3])
                ELSE IF n = 3 /\ (\A i \in 1..3 : ~args[i].float) /\ args[3].n # 0
                     THEN Opaque
                ELSE Raise
           [] func_name = "sqrt" ->
                IF n = 1 THEN PyPow(args[1], Num(1, 2, TRUE)) ELSE Raise

RECURSIVE Visit(_)
RECURSIVE VisitAll(_, _)
\* line 115: [self.visit(arg) for arg in node.args]; a raise in one ends it
VisitAll(nodes, i) ==
    IF i > Len(nodes) THEN [ok |-> TRUE, vals |-> << >>]
    ELSE LET v == Visit(nodes[i])
         IN IF ~v.ok THEN [ok |-> FALSE, vals |-> << >>]
            ELSE LET rest == VisitAll(nodes, i + 1)
                 IN IF ~rest.ok THEN rest
                    ELSE [ok |-> TRUE, vals |-> <<v>> \o rest.vals]

\* lines 88-94
visit_BinOp(node) ==
    LET left == Visit(node.kids[1]) IN
    IF ~left.ok THEN Raise
    ELSE LET right == Visit(node.kids[2]) IN
         IF ~right.ok THEN Raise
         ELSE IF node.tag \notin OPERATORS THEN Raise
         ELSE ApplyBinary(node.tag, left, right)

\* lines 96-101
visit_UnaryOp(node) ==
    LET operand == Visit(node.kids[1]) IN
    IF ~operand.ok THEN Raise
    ELSE IF node.tag \notin OPERATORS THEN Raise
    ELSE ApplyUnary(node.tag, operand)

\* lines 106-109: isinstance(node.value, (int, float)); bool is a subclass
\* of int
visit_Constant(node) ==
    IF node.tag \in {"int", "bool"} THEN Num(node.val, 1, FALSE)
    ELSE IF node.tag = "float" THEN Num(node.val, 1, TRUE)
    ELSE Raise

\* lines 111-117: node.keywords is never read
visit_Call(node) ==
    IF node.fname /\ node.tag \in FUNCTIONS
    THEN LET args == VisitAll(node.kids, 1)
         IN IF ~args.ok THEN Raise ELSE ApplyFunction(node.tag, args.vals)
    ELSE Raise

\* lines 122-123
generic_visit(node) == Raise

\* ast.NodeVisitor.visit: visit_<class name> when the evaluator defines it,
\* else generic_visit
Visit(node) ==
    CASE node.kind = "BinOp" -> visit_BinOp(node)
      [] node.kind = "UnaryOp" -> visit_UnaryOp(node)
      [] node.kind = "Constant" -> visit_Constant(node)
      [] node.kind = "Call" -> visit_Call(node)
      [] OTHER -> generic_visit(node)

\* lines 126-133: every exception comes out as ValueError
safe_math_eval(tree_body) == Visit(tree_body)

\* The expressions given to the evaluator: every tree of depth <= 1 over the
\* leaves, and the trees of depth 2 that wrap one of those.
Leaves == {Const("int", 0), Const("int", 4), Const("bool", 1), Const("str", 0), NameNode("x")}
InputBinOps == {"Add", "Div", "FloorDiv", "Pow", "BitXor"}
InputUnaryOps == {"USub", "Not"}
InputFuncs == {"abs", "max", "pow", "sqrt", "eval"}
ArgLists == {<< >>} \cup {<<a>> : a \in Leaves} \cup {<<a, b>> : a, b \in Leaves}
KeywordLists == {<< >>} \cup {<<a>> : a \in Leaves}
Level1 ==
    Leaves
    \cup {BinOp(op, l, r) : op \in InputBinOps, l \in Leaves, r \in Leaves}
    \cup {UnaryOp(op, x) : op \in InputUnaryOps, x \in Leaves}
    \cup {Call(TRUE, f, a, k) : f \in InputFuncs, a \in ArgLists, k \in KeywordLists}
    \cup {Call(FALSE, "", a, k) : a \in ArgLists, k \in KeywordLists}
    \cup {Attribute(x) : x \in Leaves}
Level2 ==
    {UnaryOp("USub", x) : x \in Level1}
    \cup {BinOp(op, x, Const("int", 4)) : op \in {"Add", "Div"}, x \in Level1}
    \cup {Call(TRUE, "abs", <<x>>, << >>) : x \in Level1}
Exprs == Level1 \cup Level2

EvalInit ==
    /\ ChunkIdle
    /\ AgentIdle
    /\ IndexIdle
    /\ ContextIdle
    /\ RouterIdle
    /\ ToolIdle
    /\ expression \in Exprs
    /\ ev_pc = "call"
    /\ ev_result = None

\* CalculatorTool.execute, line 145: result = safe_math_eval(expression)
EvalCall ==
    /\ ev_pc = "call"
    /\ ev_result' = safe_math_eval(expression)
    /\ ev_pc' = "done"
    /\ UNCHANGED expression
    /\ UNCHANGED notEval

EvalNext == EvalCall

SpecEval == EvalInit /\ [][EvalNext]_vars

(***************************************************************************)
(* Claims about the evaluator.                                             *)
(***************************************************************************)
\* the nodes the claim allows: a numeric literal (a bool is taken as one,
\* since Python's bool is an int), unary + and -, the seven binary operators,
\* a call of an allow-listed name
AllowedNode(node) ==
    \/ node.kind = "Constant" /\ node.tag \in {"int", "float", "bool"}
    \/ node.kind = "UnaryOp" /\ node.tag \in {"UAdd", "USub"}
    \/ node.kind = "BinOp" /\ node.tag \in {"Add", "Sub", "Mult", "Div", "FloorDiv", "Mod", "Pow"}
    \/ node.kind = "Call" /\ node.fname /\ node.tag \in {"abs", "round", "min", "max", "pow", "sqrt"}

RECURSIVE HasOtherNode(_)
\* some node of the tree, at any depth (operands, arguments, keyword values),
\* is not an allowed one
HasOtherNode(node) ==
    \/ ~AllowedNode(node)
    \/ \E i \in 1..Len(node.kids) : HasOtherNode(node.kids[i])
    \/ \E i \in 1..Len(node.kws) : HasOtherNode(node.kws[i])

\* C1: an expression with a node outside the allow-list anywhere in its tree
\* is never evaluated to a value: the call raises.
C1_DefaultDeny ==
    (ev_pc = "done" /\ HasOtherNode(expression)) => ~ev_result.ok

(***************************************************************************)
(* AgentService: execute_tool, _extract_tool_calls, run_agent              *)
(*                                                                         *)
(* A model response is a sequence of segments. A segment is prose or one   *)
(* {...} block, and what the two patterns of _extract_tool_calls and       *)
(* json.loads make of it is carried by its fields:                         *)
(*   fenced  it is wrapped as ```json {...} ``` (pattern of line 270)      *)
(*   inline  it has the shape {"tool": "..", "parameters": {..}}           *)
(*           (pattern of line 282)                                         *)
(*   json    json.loads accepts the {...} text                             *)
(*   tool    the value of its "tool" key, None when it has none            *)
(*   params  its "parameters": "absent" (no such key), "map_ok" (a map     *)
(*           with the tool's declared names), "map_bad" (a map with a      *)
(*           name the tool does not declare), "nonmap" (not a map)         *)
(***************************************************************************)
Seg(fenced, inline, json, tool, params) ==
    [fenced |-> fenced, inline |-> inline, json |-> json, tool |-> tool, params |-> params]

Prose == Seg(FALSE, FALSE, FALSE, None, "absent")
SegKinds ==
    { Prose,
      Seg(TRUE, TRUE, TRUE, "calculator", "map_ok"),    \* the fenced form of the prompt
      Seg(FALSE, TRUE, TRUE, "datetime", "map_ok"),
      Seg(FALSE, TRUE, TRUE, "nope", "map_ok"),         \* no such tool
      Seg(FALSE, TRUE, TRUE, "calculator", "map_bad"),
      Seg(TRUE, FALSE, TRUE, "datetime", "absent"),     \* ```json {"tool": "datetime"} ```
      Seg(TRUE, FALSE, TRUE, "calculator", "nonmap"),
      Seg(TRUE, FALSE, TRUE, None, "map_ok"),           \* a JSON object without "tool"
      Seg(TRUE, FALSE, FALSE, "calculator", "map_ok") } \* not JSON
\* the first segment of the two-segment responses
FirstSegs == {Prose, Seg(FALSE, TRUE, TRUE, "nope", "map_ok"),
              Seg(FALSE, TRUE, TRUE, "datetime", "map_ok")}
Responses ==
    {<< >>} \cup {<<a>> : a \in SegKinds} \cup {<<a, b>> : a \in FirstSegs, b \in SegKinds}

\* lines 215-219: the names of the registered tools
tools == {"web_search", "calculator", "datetime", "read_file"}
\* the tools whose execute() has a parameter without a default
RequiresParameter == {"web_search", "calculator", "read_file"}

ToolResult(success) == [success |-> success]

\* a tool.execute that drops the keyword arguments it does not declare
execute_tool_lenient(tool_name, parameters, body_ok) ==
    IF tool_name \notin tools
    THEN [raised |-> FALSE, result |-> ToolResult(FALSE)]
    ELSE IF parameters = "nonmap"
            \/ (parameters = "empty" /\ tool_name \in RequiresParameter)
         THEN [raised |-> TRUE, result |-> None]
         ELSE [raised |-> FALSE, result |-> ToolResult(body_ok \/ tool_name = "datetime")]

\* KeyError of self.tools[tool_name]: the membership test of line 259 left out
execute_tool_unchecked(tool_name, parameters, body_ok) ==
    IF tool_name \notin tools
    THEN [raised |-> TRUE, result |-> None]
    ELSE IF parameters = "nonmap" \/ parameters = "map_bad"
            \/ (parameters = "empty" /\ tool_name \in RequiresParameter)
         THEN [raised |-> TRUE, result |-> None]
         ELSE [raised |-> FALSE, result |-> ToolResult(body_ok \/ tool_name = "datetime")]

\* lines 257-263. tool.execute(**parameters) raises TypeError when parameters
\* is not a mapping or does not fit the signature of execute; the bodies of
\* the tools return a success or a failure result (body_ok), the datetime
\* tool always a success.
execute_tool(tool_name, parameters, body_ok) ==
    IF tool_name \notin tools
    THEN [raised |-> FALSE, result |-> ToolResult(FALSE)]
    ELSE IF parameters = "nonmap" \/ parameters = "map_bad"
            \/ (parameters = "empty" /\ tool_name \in RequiresParameter)
         THEN [raised |-> TRUE, result |-> None]
         ELSE [raised |-> FALSE, result |-> ToolResult(body_ok \/ tool_name = "datetime")]

\* lines 273-279 and 285-291: json.loads, then `if "tool" in data`
Extracted(seg) == seg.json /\ seg.tool # None

RECURSIVE Matches(_, _, _)
\* the segments a pattern finds, in text order
Matches(response, i, fencedPattern) ==
    IF i > Len(response) THEN << >>
    ELSE LET seg == response[i]
             hit == IF fencedPattern THEN seg.fenced ELSE seg.inline
         IN (IF hit /\ Extracted(seg) THEN <<seg>> ELSE << >>)
            \o Matches(response, i + 1, fencedPattern)

\* lines 265-293: the fenced matches, then the inline matches
ExtractToolCalls(response) == Matches(response, 1, TRUE) \o Matches(response, 1, FALSE)

\* line 342: tool_call.get("parameters", {})
GetParameters(tool_call) == IF tool_call.params = "absent" THEN "empty" ELSE tool_call.params

ContentEvents(response, it) ==
    [i \in 1..Len(response) |-> [type |-> "content", content |-> response[i], iteration |-> it]]

AgentInit ==
    /\ ChunkIdle
    /\ EvalIdle
    /\ IndexIdle
    /\ ContextIdle
    /\ RouterIdle
    /\ ToolIdle
    /\ max_iterations \in 0..MaxIterations
    /\ iteration = 0
    /\ messages = <<[role |-> "user", content |-> "message"]>>
    /\ full_response = << >>
    /\ tool_calls = << >>
    /\ tc_idx = 0
    /\ events = << >>
    /\ ag_pc = "loop"
    /\ ag_end = None
    /\ endpoint = None
    /\ turns = 0

\* lines 309-338 with the endpoint answering: the response is streamed, one
\* content event per fragment, then scanned for tool calls
ModelTurnAnswers ==
    /\ ag_pc = "loop"
    /\ iteration < max_iterations
    /\ \E response \in Responses :
         LET calls == ExtractToolCalls(response)
             streamed == events \o ContentEvents(response, iteration + 1)
         IN /\ full_response' = response
            /\ tool_calls' = calls
            /\ IF calls = << >>
               THEN /\ events' = Append(streamed, [type |-> "done", final_response |-> response])
                    /\ ag_pc' = "ended"
                    /\ ag_end' = "return"
                    /\ tc_idx' = 0
                    /\ UNCHANGED messages
               ELSE /\ events' = streamed
                    /\ messages' = Append(messages, [role |-> "assistant", content |-> response])
                    /\ ag_pc' = "tools"
                    /\ tc_idx' = 1
                    /\ UNCHANGED ag_end
    /\ iteration' = iteration + 1
    /\ turns' = turns + 1
    /\ endpoint' = "ok"
    /\ UNCHANGED max_iterations
    /\ UNCHANGED notAgent

\* lines 309-335 with the endpoint answering the POST by an error reply (a
\* non-200 status with a body such as {"error": "model not found"}):
\* chat_stream (ollama_service.py 171-183) does not look at the status and
\* yields the body line, which has no "message": full_response stays empty
ModelTurnErrorReply ==
    /\ ag_pc = "loop"
    /\ iteration < max_iterations
    /\ iteration' = iteration + 1
    /\ turns' = turns + 1
    /\ endpoint' = "error_reply"
    /\ full_response' = << >>
    /\ tool_calls' = ExtractToolCalls(<< >>)
    /\ events' = Append(events, [type |-> "done", final_response |-> << >>])
    /\ ag_pc' = "ended"
    /\ ag_end' = "return"
    /\ tc_idx' = 0
    /\ UNCHANGED <<max_iterations, messages>>
    /\ UNCHANGED notAgent

\* lines 309-319 with the endpoint unreachable: client.stream raises
\* httpx.ConnectError, which nothing in chat_stream or run_agent catches
ModelTurnUnreachable ==
    /\ ag_pc = "loop"
    /\ iteration < max_iterations
    /\ iteration' = iteration + 1
    /\ turns' = turns + 1
    /\ endpoint' = "unreachable"
    /\ full_response' = << >>
    /\ tool_calls' = << >>
    /\ tc_idx' = 0
    /\ ag_pc' = "ended"
    /\ ag_end' = "exception"
    /\ UNCHANGED <<max_iterations, messages, events>>
    /\ UNCHANGED notAgent

\* a loop that goes back to the model after its first call
AfterCallBackToModel(i, n) == "loop"

\* line 340: after call i of n the for loop goes on to the next call, or is
\* exhausted and the while loop takes over
AfterCall(i, n) == IF i = n THEN "loop" ELSE "tools"

\* lines 340-362: one pass of the for loop
ExecuteToolCall ==
    /\ ag_pc = "tools"
    /\ \E body_ok \in BOOLEAN :
         LET tool_call == tool_calls[tc_idx]
             tool_name == tool_call.tool
             parameters == GetParameters(tool_call)
             called == Append(events, [type |-> "tool_call", tool |-> tool_name,
                                       parameters |-> parameters])
             r == execute_tool(tool_name, parameters, body_ok)
         IN IF r.raised
            THEN /\ events' = called
                 /\ ag_pc' = "ended"
                 /\ ag_end' = "exception"
                 /\ UNCHANGED <<messages, tc_idx>>
            ELSE /\ events' = Append(called, [type |-> "tool_result", tool |-> tool_name,
                                              result |-> r.result])
                 /\ messages' = Append(messages, [role |-> "user",
                                   content |-> [tool |-> tool_name, returned |-> r.result]])
                 /\ tc_idx' = tc_idx + 1
                 /\ ag_pc' = AfterCall(tc_idx, Len(tool_calls))
                 /\ UNCHANGED ag_end
    /\ UNCHANGED <<max_iterations, iteration, full_response, tool_calls, endpoint, turns>>
    /\ UNCHANGED notAgent

\* line 309 (condition false) and line 364
MaxIterationsReached ==
    /\ ag_pc = "loop"
    /\ ~(iteration < max_iterations)
    /\ events' = Append(events, [type |-> "max_iterations"])
    /\ ag_pc' = "ended"
    /\ ag_end' = "exhausted"
    /\ UNCHANGED <<max_iterations, iteration, messages, full_response, tool_calls, tc_idx,
                   endpoint, turns>>
    /\ UNCHANGED notAgent

AgentNext ==
    \/ ModelTurnAnswers
    \/ ModelTurnErrorReply
    \/ ModelTurnUnreachable
    \/ ExecuteToolCall
    \/ MaxIterationsReached

SpecAgent == AgentInit /\ [][AgentNext]_vars

(***************************************************************************)
(* Claims about the agent loop.                                            *)
(***************************************************************************)
LastEvent == events[Len(events)]

\* C2: never more than max_iterations model turns are started; and a run
\* whose last permitted turn produced tool calls ends, once those calls are
\* all executed, by the max_iterations event (the generator is exhausted
\* after yielding it), never by an exception.
C2_CapEndsRun ==
    /\ turns <= max_iterations
    /\ (ag_pc = "ended" /\ iteration = max_iterations /\ tool_calls # << >>)
         => /\ ag_end = "exhausted"
            /\ tc_idx = Len(tool_calls) + 1
            /\ LastEvent.type = "max_iterations"

\* a valid tool-call block in the sense of claim C3: a JSON object that has a
\* `tool` field and a `parameters` map
ValidBlock(seg) == seg.json /\ seg.tool # None /\ seg.params \in {"map_ok", "map_bad"}
NoValidBlock(response) == \A i \in 1..Len(response) : ~ValidBlock(response[i])

\* C3: an answered model turn whose output holds no valid tool-call block
\* ends the run at once: no tool call is pending or executed, and the last
\* event is the done event carrying the full text of that turn.
C3_NoValidBlockIsDone ==
    (endpoint = "ok" /\ NoValidBlock(full_response))
        => /\ ag_pc = "ended"
           /\ ag_end = "return"
           /\ tool_calls = << >>
           /\ LastEvent = [type |-> "done", final_response |-> full_response]

\* C4: a turn in which the inference endpoint failed (unreachable, or an
\* error reply) ends the run by an error raised to the caller, never by a
\* done event.
C4_InferenceFailureIsError ==
    (endpoint \in {"unreachable", "error_reply"})
        => /\ ag_end = "exception"
           /\ (events # << >> => LastEvent.type # "done")

\* the call the for loop is at names no registered tool (its tool field is a
\* string, its parameters a map)
AtUnknownToolCall ==
    /\ ag_pc = "tools"
    /\ tool_calls[tc_idx].tool \notin tools
    /\ tool_calls[tc_idx].tool # None
    /\ tool_calls[tc_idx].params \in {"map_ok", "map_bad"}

UnknownToolTurn(tool_name) ==
    [role |-> "user", content |-> [tool |-> tool_name, returned |-> ToolResult(FALSE)]]

\* C5: executing a call that names an unregistered tool does not end the
\* run: a failure result is yielded and appended as a turn, and control
\* passes to the next tool call of the iteration, or after the last one
\* back to the head of the loop.
C5_UnknownToolGoesOn ==
    [][AtUnknownToolCall =>
         /\ messages' = Append(messages, UnknownToolTurn(tool_calls[tc_idx].tool))
         /\ events'[Len(events')] = [type |-> "tool_result", tool |-> tool_calls[tc_idx].tool,
                                     result |-> ToolResult(FALSE)]
         /\ ag_end' = None
         /\ tc_idx' = tc_idx + 1
         /\ ag_pc' = (IF tc_idx < Len(tool_calls) THEN "tools" ELSE "loop")]_vars

\* an unknown-tool failure was appended as a turn, the call after it in the
\* same iteration was executed too, and a further model turn was started
C5_Witness ==
    /\ turns = 2
    /\ \E i \in 3..(Len(messages) - 2) :
         /\ messages[i].role = "user"
         /\ messages[i] = UnknownToolTurn("nope")
         /\ messages[i + 1].role = "user"
         /\ messages[i + 2].role = "assistant"

\* the call the for loop is at names a registered tool and passes a map with
\* a name that the tool does not declare
AtUndeclaredParameterCall ==
    /\ ag_pc = "tools"
    /\ tool_calls[tc_idx].tool \in tools
    /\ tool_calls[tc_idx].params = "map_bad"

\* C22: a call of a registered tool with a parameter name the tool does not
\* declare ends in an error that reaches the caller: no result of the tool
\* is yielded or appended as a turn, and the run ends by the raised error.
C22_UndeclaredParameterIsError ==
    [][AtUndeclaredParameterCall =>
         /\ ag_pc' = "ended"
         /\ ag_end' = "exception"
         /\ messages' = messages
         /\ events' = Append(events, [type |-> "tool_call", tool |-> tool_calls[tc_idx].tool,
                                      parameters |-> "map_bad"])]_vars

\* such a call was made after an earlier call of the same turn had returned
\* its result
C22_Witness ==
    /\ ag_pc = "ended"
    /\ ag_end = "exception"
    /\ tc_idx = 2
    /\ tool_calls[tc_idx].tool = "calculator"
    /\ tool_calls[tc_idx].params = "map_bad"
    /\ events[Len(events)].type = "tool_call"
    /\ events[Len(events) - 1].type = "tool_result"

ToolResultEvents == SelectSeq(events, LAMBDA e : e.type = "tool_result")
\* the turns appended for tool results: the user turns after the first message
SyntheticTurns == SelectSeq(Tail(messages), LAMBDA m : m.role = "user")

ToolBlocks(response) ==
    {i \in 1..Len(response) :
        (response[i].fenced \/ response[i].inline) /\ Extracted(response[i])}

\* C24: every structured tool-call block of an answered model turn is
\* extracted once: the turn has as many tool calls as blocks, a block that
\* is both fenced and in the inline shape counting once.
C24_ExtractedOnce ==
    endpoint = "ok" => Len(tool_calls) = Cardinality(ToolBlocks(full_response))

TerminalEvents == SelectSeq(events, LAMBDA e : e.type \in {"done", "max_iterations"})

\* C25: a run in which the inference endpoint answered every turn ends with
\* exactly one terminal event, done or max_iterations, as its last event,
\* and not by an exception, whatever parameters its tool calls carried.
C25_OneTerminalEvent ==
    (ag_pc = "ended" /\ endpoint # "unreachable")
        => /\ ag_end \in {"return", "exhausted"}
           /\ Len(TerminalEvents) = 1
           /\ LastEvent.type \in {"done", "max_iterations"}

(***************************************************************************)
(* RAGService.index_document                                               *)
(*                                                                         *)
(* Every call has its own database session (api/documents.py: Depends(     *)
(* get_db); main.py 51: async_session_maker()). A row is visible to the    *)
(* query of another session once it is committed.                          *)
(***************************************************************************)
\* the contents given to index_document: non-empty texts
Contents == { <<"a">>, <<"a", "\n", "a">> }
Titles == {None, "t1"}

\* line 51: a cryptographic digest; distinct contents have distinct digests
compute_hash(content) == <<"sha256", content>>

\* the Result object of line 133: the ids of its rows, and whether a fetch
\* has consumed and closed it. Ids start at 1; the value 0 stands for None.
ResultOf(rows) == [rows |-> rows, closed |-> FALSE]
NoResult == [rows |-> << >>, closed |-> TRUE]

\* Result.scalar_one_or_none(): the one row, or None; it consumes and closes
\* the result.
scalar_one_or_none(res) ==
    IF res.closed THEN [raised |-> "ResourceClosedError", value |-> 0]
    ELSE IF Len(res.rows) > 1 THEN [raised |-> "MultipleResultsFound", value |-> 0]
    ELSE IF Len(res.rows) = 1 THEN [raised |-> None, value |-> res.rows[1]]
    ELSE [raised |-> None, value |-> 0]

\* what a fetch from a closed result raises: ResourceClosedError in
\* SQLAlchemy 2.0, NoResultFound from the emptied iterator of 1.4; the
\* repository pins no release
ClosedResultErrors == {"ResourceClosedError", "NoResultFound"}

\* Result.scalar_one(): the one row; a closed result raises err
scalar_one(res, err) ==
    IF res.closed THEN [raised |-> err, value |-> 0]
    ELSE IF Len(res.rows) > 1 THEN [raised |-> "MultipleResultsFound", value |-> 0]
    ELSE IF Len(res.rows) = 1 THEN [raised |-> None, value |-> res.rows[1]]
    ELSE [raised |-> "NoResultFound", value |-> 0]

Closed(res) == [res EXCEPT !.closed = TRUE]

RECURSIVE SelectIds(_, _, _)
\* select(Document).where(Document.content_hash == content_hash): the ids of
\* the committed rows with that hash, in table order
SelectIds(rows, i, content_hash) ==
    IF i > Len(rows) THEN << >>
    ELSE (IF rows[i].committed /\ rows[i].content_hash = content_hash THEN <<i>> ELSE << >>)
         \o SelectIds(rows, i + 1, content_hash)


\* the files a caller can name, and what document_processor extracts from them
Paths == {"p1"}

\* a call has returned or raised
Finished(call) == call.pc \in {"returned", "raised"}

\* a call of the pipeline at its first step; doc_is_deleted is the is_deleted
\* attribute of the Document object that db.get loaded into the session
NewOp(op, pc, content, title, file_path, document_id) ==
    [op |-> op, pc |-> pc, content |-> content, title |-> title, file_path |-> file_path,
     document_id |-> document_id, content_hash |-> << >>, existing |-> NoResult,
     doc |-> 0, doc_is_deleted |-> FALSE, returned |-> 0, raised |-> None]

NewCall(content, title) == NewOp("index", "lookup", content, title, None, 0)

\* the ids a caller can pass to delete_document and reindex_document: those
\* of the Documents it can have been given, the committed rows
KnownIds == {i \in 1..Len(documents) : documents[i].committed}

\* an index_document that would write no entry
ChunkEntriesNone(id, content) == {}

\* lines 159-173: the entries of Document id for a text, one per chunk
ChunkEntries(id, content) ==
    LET cks == ChunkTextDefault(content)
    IN {[id |-> <<id, i - 1>>, document_id |-> id, document |-> cks[i][1],
         start_pos |-> cks[i][2], end_pos |-> cks[i][3]] : i \in 1..Len(cks)}

\* the store after index_document(db, file_path=path) has completed on an
\* empty store, when the file held content
StoreWithFile(path, content) ==
    [documents |-> <<[title |-> "stem", file_path |-> path,
                      content_hash |-> compute_hash(content),
                      chunk_count |-> Cardinality(ChunkEntries(1, content)),
                      indexed_at |-> TRUE, is_deleted |-> FALSE, committed |-> TRUE]>>,
     collection |-> ChunkEntries(1, content)]

EmptyStore == [documents |-> << >>, collection |-> {}]

\* the stores the pipeline starts from: the empty one, and one that holds a
\* file indexed earlier
Stores == {EmptyStore} \cup {StoreWithFile(path, content) : path \in Paths, content \in Contents}

IndexInit ==
    /\ ChunkIdle
    /\ EvalIdle
    /\ AgentIdle
    /\ ContextIdle
    /\ RouterIdle
    /\ ToolIdle
    /\ \E store \in Stores :
         /\ documents = store.documents
         /\ collection = store.collection
    /\ index_calls = << >>
    /\ files \in [Paths -> Contents]

\* a caller invokes index_document(db, content=content, title=title)
IndexCall ==
    /\ Len(index_calls) < MaxCalls
    /\ \E content \in Contents, title \in Titles :
         index_calls' = Append(index_calls, NewCall(content, title))
    /\ UNCHANGED <<documents, collection, files>>
    /\ UNCHANGED notIndex

\* a caller (the API, the file watcher) invokes index_document(db, file_path=path)
IndexFileCall ==
    /\ Len(index_calls) < MaxCalls
    /\ \E path \in Paths :
         index_calls' = Append(index_calls, NewOp("index", "lookup", << >>, None, path, 0))
    /\ UNCHANGED <<documents, collection, files>>
    /\ UNCHANGED notIndex

\* a caller invokes delete_document(db, document_id)
DeleteCall ==
    /\ Len(index_calls) < MaxCalls
    /\ \E id \in KnownIds :
         index_calls' = Append(index_calls, NewOp("delete", "delete", << >>, None, None, id))
    /\ UNCHANGED <<documents, collection, files>>
    /\ UNCHANGED notIndex

\* a caller invokes reindex_document(db, document_id)
ReindexCall ==
    /\ Len(index_calls) < MaxCalls
    /\ \E id \in KnownIds :
         index_calls' = Append(index_calls, NewOp("reindex", "get", << >>, None, None, id))
    /\ UNCHANGED <<documents, collection, files>>
    /\ UNCHANGED notIndex

\* the file at a path is rewritten with another text
FileEdit ==
    /\ \E path \in Paths, content \in Contents :
         /\ files[path] # content
         /\ files' = [files EXCEPT ![path] = content]
    /\ UNCHANGED <<documents, collection, index_calls>>
    /\ UNCHANGED notIndex

\* lines 110-138: the content (read from the file when a path is given), the
\* hash, the query, and the branch on its result
IndexLookup(c) ==
    /\ index_calls[c].pc = "lookup"
    /\ \E err \in ClosedResultErrors :
       LET content == IF index_calls[c].file_path # None
                      THEN files[index_calls[c].file_path]
                      ELSE index_calls[c].content
           content_hash == compute_hash(content)
           existing == ResultOf(SelectIds(documents, 1, content_hash))
           first == scalar_one_or_none(existing)
           again == scalar_one(Closed(existing), err)
           looked == [index_calls[c] EXCEPT !.content = content,
                                            !.content_hash = content_hash,
                                            !.existing = Closed(existing)]
       IN index_calls' = [index_calls EXCEPT ![c] =
            IF first.raised # None
            THEN [looked EXCEPT !.pc = "raised", !.raised = first.raised]
            ELSE IF first.value # 0
            THEN IF again.raised # None
                 THEN [looked EXCEPT !.pc = "raised", !.raised = again.raised]
                 ELSE [looked EXCEPT !.pc = "returned", !.returned = again.value]
            ELSE [looked EXCEPT !.pc = "create"]]
    /\ UNCHANGED <<documents, collection, files>>
    /\ UNCHANGED notIndex

\* lines 118, 125: title or the title of the file (its stem), title or "Untitled Document"
TitleOf(call) ==
    IF call.title # None THEN call.title
    ELSE IF call.file_path # None THEN "stem" ELSE "Untitled Document"

\* lines 140-152: the Document is added and flushed, which gives it its id
IndexCreate(c) ==
    /\ index_calls[c].pc = "create"
    /\ documents' = Append(documents,
          [title |-> TitleOf(index_calls[c]), file_path |-> index_calls[c].file_path,
           content_hash |-> index_calls[c].content_hash, chunk_count |-> 0,
           indexed_at |-> FALSE, is_deleted |-> FALSE, committed |-> FALSE])
    /\ index_calls' = [index_calls EXCEPT ![c].pc = "write", ![c].doc = Len(documents) + 1]
    /\ UNCHANGED <<collection, files>>
    /\ UNCHANGED notIndex

\* lines 154-185: chunk, add the chunks to the collection, stamp, commit
IndexWrite(c) ==
    /\ index_calls[c].pc = "write"
    /\ LET id == index_calls[c].doc
           entries == ChunkEntries(id, index_calls[c].content)
       IN /\ collection' = collection \cup entries
          /\ documents' = [documents EXCEPT ![id].chunk_count = Cardinality(entries),
                                            ![id].indexed_at = TRUE,
                                            ![id].committed = TRUE]
          /\ index_calls' = [index_calls EXCEPT ![c].pc = "returned", ![c].returned = id]
    /\ UNCHANGED files
    /\ UNCHANGED notIndex

\* a delete whose filter matches no entry
DeleteWhereNothing(coll, document_id) == coll

\* collection.delete(where={"document_id": document_id})

DeleteWhere(coll, document_id) == {e \in coll : e.document_id # document_id}

\* a db.get that finds no Document
GetNone(document_id) == 0

\* db.get(Document, document_id): the id of the row, 0 for None
Get(document_id) == IF document_id \in KnownIds THEN document_id ELSE 0

\* delete_document, lines 279-284: the entries go, then the Document is asked for
DeleteEntries(c) ==
    /\ index_calls[c].pc = "delete"
    /\ collection' = DeleteWhere(collection, index_calls[c].document_id)
    /\ index_calls' = [index_calls EXCEPT ![c].pc = "mark"]
    /\ UNCHANGED <<documents, files>>
    /\ UNCHANGED notIndex

\* delete_document, lines 284-287: the Document found is marked and committed
DeleteMark(c) ==
    /\ index_calls[c].pc = "mark"
    /\ LET doc == Get(index_calls[c].document_id)
       IN /\ documents' = IF doc # 0 THEN [documents EXCEPT ![doc].is_deleted = TRUE]
                          ELSE documents
          /\ index_calls' = [index_calls EXCEPT ![c].pc = "returned", ![c].doc = doc]
    /\ UNCHANGED <<collection, files>>
    /\ UNCHANGED notIndex

\* reindex_document, lines 295-297: no Document, or one without a file path,
\* returns None
ReindexGet(c) ==
    /\ index_calls[c].pc = "get"
    /\ LET doc == Get(index_calls[c].document_id)
       IN index_calls' = [index_calls EXCEPT ![c] =
            IF doc = 0 \/ documents[doc].file_path = None
            THEN [@ EXCEPT !.pc = "returned", !.returned = 0]
            ELSE [@ EXCEPT !.pc = "redelete", !.doc = doc,
                           !.doc_is_deleted = documents[doc].is_deleted,
                           !.file_path = documents[doc].file_path,
                           !.title = documents[doc].title]]
    /\ UNCHANGED <<documents, collection, files>>
    /\ UNCHANGED notIndex

\* reindex_document, lines 299-310: the old entries go, and index_document is
\* called with the path and title of the Document
ReindexDelete(c) ==
    /\ index_calls[c].pc = "redelete"
    /\ collection' = DeleteWhere(collection, index_calls[c].document_id)
    /\ index_calls' = [index_calls EXCEPT ![c].pc = "lookup", ![c].doc = 0]
    /\ UNCHANGED <<documents, files>>
    /\ UNCHANGED notIndex

IndexNext ==
    \/ IndexCall
    \/ IndexFileCall
    \/ DeleteCall
    \/ ReindexCall
    \/ FileEdit
    \/ \E c \in 1..Len(index_calls) : IndexLookup(c)
    \/ \E c \in 1..Len(index_calls) : IndexCreate(c)
    \/ \E c \in 1..Len(index_calls) : IndexWrite(c)
    \/ \E c \in 1..Len(index_calls) : DeleteEntries(c)
    \/ \E c \in 1..Len(index_calls) : DeleteMark(c)
    \/ \E c \in 1..Len(index_calls) : ReindexGet(c)
    \/ \E c \in 1..Len(index_calls) : ReindexDelete(c)

SpecIndex == IndexInit /\ [][IndexNext]_vars

(***************************************************************************)
(* Claims about the indexing pipeline.                                     *)
(***************************************************************************)
RowsWithHash(h) == {i \in 1..Len(documents) : documents[i].content_hash = h}
EntriesOf(id) == {e \in collection : e.document_id = id}

\* call c found, at its query, a committed Document with the hash of its content
FoundExisting(c) == index_calls[c].content_hash # << >> /\ index_calls[c].existing.rows # << >>

\* C10: an index_document call whose content is already indexed returns the
\* existing Document, and that fingerprint keeps exactly one Document record.
C10_DuplicateReturnsExisting ==
    \A c \in 1..Len(index_calls) :
        (FoundExisting(c) /\ index_calls[c].pc # "lookup")
            => /\ index_calls[c].pc = "returned"
               /\ index_calls[c].returned = index_calls[c].existing.rows[1]
               /\ Cardinality(RowsWithHash(index_calls[c].content_hash)) = 1

\* C11: a reindex_document call on a Document that has a file path
\* completes by returning that Document, and at that moment the entries
\* keyed by its id are the chunks of the content the call read from the file.
C11_ReindexRewritesChunks ==
    [][\A c \in 1..Len(index_calls) :
         (/\ index_calls[c].op = "reindex"
          /\ ~Finished(index_calls[c])
          /\ Finished(index_calls'[c])
          /\ index_calls'[c].file_path # None)
            => /\ index_calls'[c].pc = "returned"
               /\ index_calls'[c].returned = index_calls[c].document_id
               /\ {e \in collection' : e.document_id = index_calls[c].document_id}
                    = ChunkEntries(index_calls[c].document_id, index_calls'[c].content)]_vars

\* C12: once delete_document(id) has completed, no entry keyed by id is in
\* the index and the row of id is still there, marked deleted; and no step
\* of a delete call touches an entry or a row of another Document, removes a
\* row, or changes another field of the row of id.
C12_DeleteRemovesAndMarks ==
    /\ [](\A c \in 1..Len(index_calls) :
            (index_calls[c].op = "delete" /\ index_calls[c].pc = "returned")
                => /\ EntriesOf(index_calls[c].document_id) = {}
                   /\ index_calls[c].document_id \in 1..Len(documents)
                   /\ documents[index_calls[c].document_id].is_deleted)
    /\ [][\A c \in 1..Len(index_calls) :
            (index_calls[c].op = "delete" /\ index_calls'[c].pc # index_calls[c].pc)
                => LET id == index_calls[c].document_id
                   IN /\ collection' \subseteq collection
                      /\ \A e \in collection : e.document_id # id => e \in collection'
                      /\ Len(documents') = Len(documents)
                      /\ \A d \in 1..Len(documents) :
                            IF d = id
                            THEN [documents'[d] EXCEPT !.is_deleted = documents[d].is_deleted]
                                    = documents[d]
                            ELSE documents'[d] = documents[d]]_vars

\* a delete has completed on a Document that had entries at the start, and
\* another Document is live with its entries in the index
C12_Witness ==
    \E c \in 1..Len(index_calls) : \E d \in 1..Len(documents) :
        /\ index_calls[c].op = "delete"
        /\ index_calls[c].pc = "returned"
        /\ documents[index_calls[c].document_id].is_deleted
        /\ documents[index_calls[c].document_id].chunk_count > 0
        /\ d # index_calls[c].document_id
        /\ ~documents[d].is_deleted
        /\ EntriesOf(d) # {}

\* entries that belong to a soft-deleted Document
Orphans(d) == documents[d].is_deleted /\ EntriesOf(d) # {}
\* a live, indexed Document that has no entry
MissingChunks(d) ==
    /\ documents[d].committed
    /\ ~documents[d].is_deleted
    /\ documents[d].indexed_at
    /\ EntriesOf(d) = {}

\* the Documents a reindex call is about: the one it was given and the one
\* it returned
DocsOf(r) == {index_calls[r].document_id, index_calls[r].returned} \ {0}

DeletedWithHash(h) ==
    \E x \in 1..Len(index_calls) :
        /\ index_calls[x].op = "delete"
        /\ index_calls[x].pc = "returned"
        /\ index_calls[x].doc # 0
        /\ documents[index_calls[x].doc].content_hash = h

\* C27: an index_document that starts after delete_document has completed
\* on a Document of the same content does not raise at the lookup of the
\* fingerprint, and what it returns is a Document that is not soft-deleted
\* and whose chunks are in the index.
C27_IndexAfterDelete ==
    [][\A c \in 1..Len(index_calls) :
         (/\ index_calls[c].op = "index"
          /\ index_calls[c].pc = "lookup"
          /\ index_calls'[c].pc # "lookup"
          /\ DeletedWithHash(index_calls'[c].content_hash))
            => /\ index_calls'[c].pc # "raised"
               /\ index_calls'[c].pc = "returned"
                    => /\ ~documents[index_calls'[c].returned].is_deleted
                       /\ EntriesOf(index_calls'[c].returned) # {}]_vars

\* C28: when every call has returned, every Document that is not
\* soft-deleted and has its indexed timestamp has a chunk_count equal to the
\* number of entries of the index keyed by its id.
C28_ChunkCountMatches ==
    (\A c \in 1..Len(index_calls) : index_calls[c].pc = "returned")
        => \A d \in 1..Len(documents) :
              (documents[d].committed /\ ~documents[d].is_deleted /\ documents[d].indexed_at)
                  => documents[d].chunk_count = Cardinality(EntriesOf(d))

\* C29: two index_document calls for the same content, both ended, leave one
\* Document record with that fingerprint and the entries of one Document.
C29_OneRecordPerContent ==
    \A c1, c2 \in 1..Len(index_calls) :
        (/\ c1 # c2
         /\ index_calls[c1].op = "index"
         /\ index_calls[c2].op = "index"
         /\ Finished(index_calls[c1])
         /\ Finished(index_calls[c2])
         /\ index_calls[c1].content_hash = index_calls[c2].content_hash)
            => /\ Cardinality(RowsWithHash(index_calls[c1].content_hash)) = 1
               /\ Cardinality({e.document_id : e \in
                     {x \in collection : x.document_id \in
                                            RowsWithHash(index_calls[c1].content_hash)}}) = 1

(***************************************************************************)
(* RAGService.get_context_for_query                                        *)
(***************************************************************************)
\* titles of indexed Documents (lines 118, 125, 164)
DocTitles == {"t1", "Untitled Document"}

\* the chunk texts of the index entries: stripped, non-empty, of these lengths
ChunkLens == {1, 4, 7, 8}
ChunkOfLen(n) == [i \in 1..n |-> "a"]

\* line 235 and ChromaDB's query: the entries come nearest first, and the
\* relevance of the entry at rank i is 1 - distance, the distance taken as i
Relevance(i) == 1 - i

\* lines 229-237: the DocumentSearchResult of the entry at rank i
SearchResult(i, title, chunk_content) ==
    [title |-> title, chunk_content |-> chunk_content, relevance_score |-> Relevance(i)]

RECURSIVE RankedLists(_)
\* the lists search can return: up to n results, nearest first
RankedLists(n) ==
    IF n = 0 THEN {<< >>}
    ELSE LET shorter == RankedLists(n - 1)
         IN shorter \cup
            {Append(l, SearchResult(n, title, ChunkOfLen(len))) :
                l \in {x \in shorter : Len(x) = n - 1},
                title \in DocTitles, len \in ChunkLens}

\* line 262: the estimated cost of a chunk, four characters to the token
ChunkTokens(chunk_content) == Len(chunk_content) \div 4

\* a budget test that looks at the chunk alone
OverBudgetAlone(current, chunk_tokens, budget) == chunk_tokens > budget

\* line 263
OverBudget(current, chunk_tokens, budget) == current + chunk_tokens > budget

\* a loop that goes on to the next result after a rejected one
AfterRejectContinue(i, n) == i + 1

\* line 264: break, the loop is left
AfterReject(i, n) == n + 1

\* lines 266-268: the part of the context made from a result
Part(result) == <<"[From: ", result.title, "]\n">> \o result.chunk_content

RECURSIVE Join(_, _)
\* line 272: "\n\n---\n\n".join(context_parts)
Join(sep, parts) ==
    IF parts = << >> THEN << >>
    ELSE IF Len(parts) = 1 THEN parts[1]
    ELSE parts[1] \o sep \o Join(sep, Tail(parts))

ContextInit ==
    /\ ChunkIdle
    /\ EvalIdle
    /\ AgentIdle
    /\ IndexIdle
    /\ RouterIdle
    /\ ToolIdle
    /\ results \in RankedLists(MaxResults)
    /\ max_tokens \in 0..MaxTokens
    /\ context_parts = << >>
    /\ documents_used = {}
    /\ current_tokens = 0
    /\ cx_i = 0
    /\ cx_pc = "call"
    /\ context = None

\* lines 251-258: search has answered; no result returns ("", [])
ContextEnter ==
    /\ cx_pc = "call"
    /\ IF results = << >>
       THEN /\ cx_pc' = "returned"
            /\ context' = << << >>, {} >>
            /\ cx_i' = cx_i
       ELSE /\ cx_pc' = "loop"
            /\ context' = context
            /\ cx_i' = 1
    /\ UNCHANGED <<results, max_tokens, context_parts, documents_used, current_tokens>>
    /\ UNCHANGED notContext

\* lines 260-270: one pass of the for loop
ContextStep ==
    /\ cx_pc = "loop"
    /\ cx_i <= Len(results)
    /\ LET result == results[cx_i]
           chunk_tokens == ChunkTokens(result.chunk_content)
       IN IF OverBudget(current_tokens, chunk_tokens, max_tokens)
          THEN /\ cx_i' = AfterReject(cx_i, Len(results))
               /\ UNCHANGED <<context_parts, documents_used, current_tokens>>
          ELSE /\ context_parts' = Append(context_parts, Part(result))
               /\ documents_used' = documents_used \cup {result.title}
               /\ current_tokens' = current_tokens + chunk_tokens
               /\ cx_i' = cx_i + 1
    /\ UNCHANGED <<results, max_tokens, cx_pc, context>>
    /\ UNCHANGED notContext

\* lines 272-273: the parts are joined and returned with the titles
ContextReturn ==
    /\ cx_pc = "loop"
    /\ cx_i > Len(results)
    /\ cx_pc' = "returned"
    /\ context' = <<Join(<<"\n\n---\n\n">>, context_parts), documents_used>>
    /\ UNCHANGED <<results, max_tokens, context_parts, documents_used, current_tokens, cx_i>>
    /\ UNCHANGED notContext

ContextNext == ContextEnter \/ ContextStep \/ ContextReturn

SpecContext == ContextInit /\ [][ContextNext]_vars

(***************************************************************************)
(* Claims about the context assembler.                                     *)
(***************************************************************************)
RECURSIVE PrefixTokens(_)
\* the estimated cost of the first k results together
PrefixTokens(k) ==
    IF k = 0 THEN 0 ELSE PrefixTokens(k - 1) + (Len(results[k].chunk_content) \div 4)

\* the parts of the first k results, in rank order
PrefixParts(k) == [i \in 1..k |-> Part(results[i])]

\* the number of leading results whose parts make up context_parts, when
\* context_parts is such a prefix
Taken == Len(context_parts)

\* C14: the chunks in the context never cost more than the budget together:
\* the sum of their estimates (a quarter of the length, rounded down, as
\* line 262 computes it) is at most max_tokens, at every point of the loop
\* and in the returned context.
C14_WithinBudget ==
    /\ Taken <= Len(results)
    /\ context_parts = PrefixParts(Taken)
    /\ PrefixTokens(Taken) <= max_tokens
    /\ cx_pc = "returned" /\ results # << >>
          => context[1] = Join(<<"\n\n---\n\n">>, PrefixParts(Taken))

\* the results cost more than the budget together, and some were accepted
C14_Witness ==
    /\ cx_pc = "returned"
    /\ PrefixTokens(Len(results)) > max_tokens
    /\ Taken >= 2
    /\ PrefixTokens(Taken) = max_tokens

\* C15: the returned context is made of exactly the longest prefix of the
\* ranked list that fits the budget, in rank order (relevance descending):
\* everything from the first result that does not fit on is left out.
C15_LongestPrefix ==
    cx_pc = "returned"
        => /\ Taken <= Len(results)
           /\ context_parts = PrefixParts(Taken)
           /\ \A i \in 2..Len(results) :
                 results[i - 1].relevance_score >= results[i].relevance_score
           /\ PrefixTokens(Taken) <= max_tokens
           /\ Taken < Len(results) => PrefixTokens(Taken + 1) > max_tokens

\* a result was accepted, the next was rejected, and the one after it, which
\* would have fitted, is not in the context
C15_Witness ==
    /\ cx_pc = "returned"
    /\ Taken >= 1
    /\ Taken + 2 <= Len(results)
    /\ PrefixTokens(Taken) + (Len(results[Taken + 2].chunk_content) \div 4) <= max_tokens

(***************************************************************************)
(* ModelRouter: analyze_query, _assess_complexity, _select_model           *)
(*                                                                         *)
(* A query is a sequence of words separated by single spaces. The words    *)
(* are alphabetic, so a pattern \bw\b matches exactly when w is one of the *)
(* words, and a pattern u\s+w when u and w are neighbours.                 *)
(***************************************************************************)
\* settings.MODELS
MODELS ==
    [fast |-> "llama3.1:8b", balanced |-> "mistral:7b",
     document |-> "qwen2.5:14b", quality |-> "llama3.1:70b-q4"]

\* TaskType, in the order of the enum
TaskType ==
    <<"chat", "question", "document_analysis", "rag_query", "writing",
      "creative", "email", "resume", "code", "summary">>
TaskTypes == {TaskType[i] : i \in 1..Len(TaskType)}

\* the words of the queries, as typed
Words == {"write", "Write", "a", "poem", "summarize", "brief", "detailed"}

\* str.lower() of a word
LowerWord(w) == IF w = "Write" THEN "write" ELSE w
\* line 89: query.lower()
Lower(q) == [i \in 1..Len(q) |-> LowerWord(q[i])]

\* the patterns, by shape:
\*   W(w)         \bw\b
\*   Ph(sets)     words in a row, one from each set:  \bu\s+(v|w)\b
\*   Then(sets, later)  such a row and, anywhere after it, a word of later
\*   Starts(set)  ^(u|v|...)\b
\*   Ends(set)    a last word out of set, for \?$
Ph(sets) == [kind |-> "phrase", sets |-> sets, later |-> {}]
W(w) == Ph(<<{w}>>)
Then(sets, later) == [kind |-> "then", sets |-> sets, later |-> later]
Starts(set) == [kind |-> "starts", sets |-> <<set>>, later |-> {}]
Ends(set) == [kind |-> "ends", sets |-> <<set>>, later |-> {}]

\* the pattern sets match the words of q from position i on
PhraseAt(q, i, sets) ==
    /\ i + Len(sets) - 1 <= Len(q)
    /\ \A k \in 1..Len(sets) : q[i + k - 1] \in sets[k]

\* re.search(pattern, q)
Search(pattern, q) ==
    CASE pattern.kind = "phrase" -> \E i \in 1..Len(q) : PhraseAt(q, i, pattern.sets)
      [] pattern.kind = "then" ->
            \E i \in 1..Len(q) :
                /\ PhraseAt(q, i, pattern.sets)
                /\ \E j \in (i + Len(pattern.sets))..Len(q) : q[j] \in pattern.later
      [] pattern.kind = "starts" -> q # << >> /\ q[1] \in pattern.sets[1]
      [] pattern.kind = "ends" -> q # << >> /\ q[Len(q)] \in pattern.sets[1]

\* lines 20-64. In the patterns with .* the later set holds the words that
\* contain the text after it ("letter", "long"); a word that ends in "?"
\* is not among Words.
TASK_PATTERNS ==
    [code |-> <<W("code"), W("function"), W("class"), W("python"), W("javascript"),
                W("program"), W("debug"), Ph(<<{"fix"}, {"this"}>>), W("import"), W("def"),
                W("return"), Ph(<<{"for"}, {"loop"}>>), W("syntax"), W("compile"),
                W("script")>>,
     email |-> <<W("email"), W("reply"), Ph(<<{"respond"}, {"to"}>>), W("draft"),
                 Ph(<<{"subject"}, {"line"}>>), Ph(<<{"professional"}, {"message"}>>),
                 Then(<<{"dear"}>>, {"letter"}), Ph(<<{"thank"}, {"you"}, {"note"}>>)>>,
     resume |-> <<W("resume"), W("cv"), Ph(<<{"cover"}, {"letter"}>>),
                  Ph(<<{"job"}, {"application"}>>), Ph(<<{"work"}, {"experience"}>>),
                  W("qualifications"), W("hiring")>>,
     creative |-> <<W("story"), W("poem"), W("creative"), W("imagine"), W("fiction"),
                    W("character"), W("plot"), Ph(<<{"write"}, {"a"}>>), W("narrative"),
                    W("dialogue"), W("scene")>>,
     writing |-> <<W("write"), W("compose"), W("article"), W("blog"), W("essay"),
                   W("paragraph"), W("rewrite"), W("paraphrase"),
                   Then(<<{"summarize"}>>, {"long"}), W("expand"), W("elaborate")>>,
     document_analysis |->
                 <<W("document"), W("pdf"), W("file"), W("analyze"), W("review"), W("extract"),
                   Then(<<{"from"}, {"the"}>>, {"document", "file", "pdf"}),
                   Then(<<{"what"}, {"does"}, {"the", "this"}>>, {"say"})>>,
     rag_query |-> <<Ph(<<{"my"}, {"document", "documents", "file", "files", "note", "notes"}>>),
                     Ph(<<{"search"}, {"my"}>>), Ph(<<{"find"}, {"in"}>>),
                     Ph(<<{"according"}, {"to"}>>),
                     Ph(<<{"what"}, {"do"}, {"i"}, {"have"}>>),
                     Ph(<<{"in"}, {"my"}, {"file", "files", "document", "documents"}>>)>>,
     summary |-> <<W("summarize"), W("summary"), Ph(<<{"tldr", "tl;dr"}>>),
                   Ph(<<{"key"}, {"points"}>>), Ph(<<{"main"}, {"idea", "ideas"}>>),
                   W("overview"), W("brief")>>,
     question |-> <<Starts({"what", "who", "where", "when", "why", "how", "can", "could",
                            "would", "should", "is", "are", "do", "does"}),
                    Ends({}), W("explain"), Ph(<<{"tell"}, {"me"}>>),
                    Ph(<<{"what"}, {"is"}>>)>>]

\* lines 67-77
COMPLEXITY_INDICATORS ==
    [high |-> <<W("detailed"), W("comprehensive"), W("in-depth"), W("thorough"),
                W("complete"), W("long-form"), W("professional"), W("polished")>>,
     low |-> <<W("quick"), W("brief"), W("simple"), W("short"), W("just"), W("only"),
               W("basic")>>]

\* the number of patterns of a list that match
Matching(patterns, q) == Cardinality({i \in 1..Len(patterns) : Search(patterns[i], q)})

\* a score that only tells whether some pattern of the label matches
ScoreAnyMatch(task, q) ==
    IF task \in DOMAIN TASK_PATTERNS /\ Matching(TASK_PATTERNS[task], q) > 0 THEN 1 ELSE 0

\* lines 92-97: scores[task]
Score(task, q) ==
    IF task \in DOMAIN TASK_PATTERNS THEN Matching(TASK_PATTERNS[task], q) ELSE 0

\* line 100: max over the items of scores, which stand in the order of the
\* enum; of several items with the highest score max returns the first
BestTask(q) ==
    LET scores == [i \in 1..Len(TaskType) |-> Score(TaskType[i], q)]
        top == SetMax({scores[i] : i \in 1..Len(TaskType)})
        first == SetMin({i \in 1..Len(TaskType) : scores[i] = top})
    IN <<TaskType[first], top>>

\* lines 124-135
assess_complexity(q) ==
    LET high_score == Matching(COMPLEXITY_INDICATORS.high, q)
        low_score == Matching(COMPLEXITY_INDICATORS.low, q)
    IN IF high_score > low_score THEN "high"
       ELSE IF low_score > high_score THEN "low"
       ELSE "normal"

\* lines 148-159
task_model_mapping(complexity) ==
    [chat |-> "fast", question |-> "fast", code |-> "fast", summary |-> "document",
     document_analysis |-> "document", rag_query |-> "document",
     writing |-> IF complexity # "low" THEN "quality" ELSE "balanced",
     creative |-> IF complexity # "low" THEN "quality" ELSE "balanced",
     email |-> "quality", resume |-> "quality"]

\* a selection that looks at the complexity before the learned preference
select_model_complexity_first(preferences, task_type, complexity) ==
    IF complexity = "high" THEN MODELS["quality"]
    ELSE IF preferences[task_type] # None THEN preferences[task_type]
    ELSE MODELS[task_model_mapping(complexity)[task_type]]

\* lines 137-162; preferences[task] = None stands for a task that is not a
\* key of user_preferences
select_model(preferences, task_type, complexity) ==
    IF preferences[task_type] # None THEN preferences[task_type]
    ELSE IF complexity = "high" THEN MODELS["quality"]
    ELSE MODELS[task_model_mapping(complexity)[task_type]]

\* lines 89-122
analyze_query(preferences, q) ==
    LET query_lower == Lower(q)
        best_task == BestTask(query_lower)
        task_type == IF best_task[2] = 0 THEN "chat" ELSE best_task[1]
        complexity == assess_complexity(query_lower)
        reason == <<IF best_task[2] = 0 THEN "General conversation" ELSE "Detected task",
                    IF complexity = "high" THEN "high-quality model"
                    ELSE IF complexity = "low" /\ task_type \in {"writing", "creative"}
                         THEN "fast model" ELSE "">>
    IN [task_type |-> task_type, complexity |-> complexity,
        model |-> select_model(preferences, task_type, complexity), reason |-> reason]

RECURSIVE QueriesOf(_)
\* the queries of up to n words
QueriesOf(n) ==
    IF n = 0 THEN {<< >>}
    ELSE LET shorter == QueriesOf(n - 1)
         IN shorter \cup {Append(q, w) : q \in {x \in shorter : Len(x) = n - 1}, w \in Words}

Queries == QueriesOf(MaxQueryLen)

Complexities == {"high", "low", "normal"}

\* user_preferences without a key (line 80), and with one learned preference
NoPreferences == [task \in TaskTypes |-> None]
PreferenceTables ==
    {NoPreferences} \cup
    {[NoPreferences EXCEPT ![task] = MODELS["balanced"]] : task \in TaskTypes}

RouteInit ==
    /\ ChunkIdle
    /\ EvalIdle
    /\ AgentIdle
    /\ IndexIdle
    /\ ContextIdle
    /\ ToolIdle
    /\ query \in Queries
    /\ decision = NoDecision
    /\ user_preferences \in PreferenceTables
    /\ usage_log = << >>
    /\ learn_calls = << >>

\* analyze_query(query) runs
AnalyzeQuery ==
    /\ decision = NoDecision
    /\ decision' = [call |-> "analyze_query"] @@ analyze_query(user_preferences, query)
    /\ UNCHANGED <<query, user_preferences, usage_log, learn_calls>>
    /\ UNCHANGED notRouter

\* _select_model(task_type, complexity) on its own
SelectModelCall ==
    /\ decision = NoDecision
    /\ query = << >>
    /\ \E task_type \in TaskTypes, complexity \in Complexities :
         /\ query' = query
         /\ decision' = [call |-> "_select_model", task_type |-> task_type,
                         complexity |-> complexity,
                         model |-> select_model(user_preferences, task_type, complexity),
                         reason |-> << >>]
    /\ UNCHANGED <<user_preferences, usage_log, learn_calls>>
    /\ UNCHANGED notRouter

RouteNext == AnalyzeQuery \/ SelectModelCall

SpecRoute == RouteInit /\ [][RouteNext]_vars

(***************************************************************************)
(* Claims about the routing decision.                                      *)
(***************************************************************************)
\* the number of patterns of each label that match the lower-cased query
PatternCounts ==
    [task \in TaskTypes |->
        IF task \in DOMAIN TASK_PATTERNS
        THEN Cardinality({i \in 1..Len(TASK_PATTERNS[task]) :
                             Search(TASK_PATTERNS[task][i], Lower(query))})
        ELSE 0]

Analyzed == decision.call = "analyze_query"

\* C16: analyze_query returns the label whose count of matching patterns is
\* strictly higher than every other label's, and the general-chat label when
\* no pattern of any label matches.
C16_StrictWinner ==
    Analyzed =>
        LET count == PatternCounts
        IN /\ \A t \in TaskTypes :
                 (\A u \in TaskTypes \ {t} : count[t] > count[u]) => decision.task_type = t
           /\ (\A t \in TaskTypes : count[t] = 0) => decision.task_type = "chat"

\* a label won with more matches than another label that matched too, in a
\* query that needed lower-casing
C16_Witness ==
    /\ Analyzed
    /\ Lower(query) # query
    /\ LET count == PatternCounts
       IN \E t, u \in TaskTypes :
             /\ decision.task_type = t
             /\ count[t] > count[u]
             /\ count[u] > 0
             /\ \A v \in TaskTypes \ {t} : count[t] > count[v]

\* C17: when several labels tie for the highest count and that count is not
\* zero, analyze_query returns the general-chat label.
C17_TieIsChat ==
    Analyzed =>
        LET count == PatternCounts
            top == {t \in TaskTypes : \A u \in TaskTypes : count[t] >= count[u]}
        IN (Cardinality(top) >= 2 /\ \E t \in top : count[t] > 0)
              => decision.task_type = "chat"

\* C18: the model of every decision follows the priority: the learned
\* preference of the task when there is one, else the top-quality model
\* when the complexity is high, else the model of the static table.
C18_SelectPriority ==
    decision.call # "none" =>
        LET task == decision.task_type
            complexity == decision.complexity
            tier == CASE task \in {"chat", "question", "code"} -> "fast"
                      [] task \in {"summary", "document_analysis", "rag_query"} -> "document"
                      [] task \in {"email", "resume"} -> "quality"
                      [] task \in {"writing", "creative"} ->
                            IF complexity = "low" THEN "balanced" ELSE "quality"
        IN decision.model =
              IF user_preferences[task] # None THEN user_preferences[task]
              ELSE IF complexity = "high" THEN MODELS["quality"]
              ELSE MODELS[tier]

\* a decision of high complexity for a task with a learned preference that
\* is not the top-quality model
C18_Witness ==
    /\ Analyzed
    /\ decision.complexity = "high"
    /\ user_preferences[decision.task_type] # None
    /\ decision.model = user_preferences[decision.task_type]
    /\ decision.model # MODELS["quality"]

(***************************************************************************)
(* Learning from overrides: ModelRouter.learn_from_override and            *)
(* _update_preferences.  A call runs in three steps, one between each pair *)
(* of awaits: the commit of its row (line 179), the read of the recent     *)
(* override rows (line 192), and the update of user_preferences (lines     *)
(* 193-200).  Calls of different requests take their steps in any order.   *)
(* user_preferences lives in the process (line 80) and the rows in the     *)
(* database, so a process starts with no preference and any log.           *)
(***************************************************************************)

\* the tasks of the rows of the log, the tasks of the calls, and the models of
\* the overrides
LogTasks == {"writing", "chat"}
LearnTasks == {"writing"}
UserModels == {MODELS["balanced"], MODELS["document"]}

\* lines 172-177: the row of an override
OverrideRow(task, user_model) == [task_type |-> task, user_override_model |-> user_model]

RECURSIVE Histories(_)
\* the logs of up to n override rows
Histories(n) ==
    IF n = 0 THEN {<< >>}
    ELSE LET shorter == Histories(n - 1)
         IN shorter \cup {Append(h, OverrideRow(task, m)) :
                             h \in {x \in shorter : Len(x) = n - 1},
                             task \in LogTasks, m \in UserModels}

\* lines 187-197: the user_override_model of the override rows of the task,
\* newest first, at most 10
RecentOverrides(log, task) ==
    LET rows == SelectSeq(log, LAMBDA r : r.task_type = task)
        n == Len(rows)
        k == IF n < 10 THEN n ELSE 10
    IN [i \in 1..k |-> rows[n + 1 - i].user_override_model]

\* override_models.count(m)
Count(override_models, m) ==
    Cardinality({i \in 1..Len(override_models) : override_models[i] = m})

\* line 198: max(set(override_models), key=override_models.count) returns the
\* first of the most frequent models in the iteration order of the set,
\* which is not fixed: any of them
MostCommon(override_models) ==
    LET models == {override_models[i] : i \in 1..Len(override_models)}
    IN {m \in models : \A other \in models :
           Count(override_models, m) >= Count(override_models, other)}

Unfinished == {c \in 1..Len(learn_calls) : learn_calls[c].pc # "done"}

LearnInit ==
    /\ ChunkIdle
    /\ EvalIdle
    /\ AgentIdle
    /\ IndexIdle
    /\ ContextIdle
    /\ ToolIdle
    /\ query = << >>
    /\ decision = NoDecision
    /\ user_preferences = NoPreferences
    /\ usage_log \in Histories(MaxHistory)
    /\ learn_calls = << >>

\* a request calls learn_from_override(db, task_type, auto_model, user_model);
\* concurrent records whether the call ran while another was unfinished
LearnCall ==
    /\ Len(learn_calls) < MaxLearnCalls
    /\ \E task \in LearnTasks, user_model \in UserModels :
         learn_calls' =
            Append([c \in 1..Len(learn_calls) |->
                       IF c \in Unfinished
                       THEN [learn_calls[c] EXCEPT !.concurrent = TRUE]
                       ELSE learn_calls[c]],
                   [task_type |-> task, user_model |-> user_model, pc |-> "commit",
                    override_models |-> << >>, concurrent |-> Unfinished # {}])
    /\ UNCHANGED <<query, decision, user_preferences, usage_log>>
    /\ UNCHANGED notRouter

\* lines 172-179: db.add(log); await db.commit()
LearnCommit(c) ==
    /\ learn_calls[c].pc = "commit"
    /\ usage_log' = Append(usage_log,
                           OverrideRow(learn_calls[c].task_type, learn_calls[c].user_model))
    /\ learn_calls' = [learn_calls EXCEPT ![c].pc = "query"]
    /\ UNCHANGED <<query, decision, user_preferences>>
    /\ UNCHANGED notRouter

\* lines 187-192: result = await db.execute(query)
LearnQuery(c) ==
    /\ learn_calls[c].pc = "query"
    /\ learn_calls' = [learn_calls EXCEPT
                          ![c].override_models =
                              RecentOverrides(usage_log, learn_calls[c].task_type),
                          ![c].pc = "update"]
    /\ UNCHANGED <<query, decision, user_preferences, usage_log>>
    /\ UNCHANGED notRouter

\* lines 193-200
LearnUpdate(c) ==
    /\ learn_calls[c].pc = "update"
    /\ LET override_models == learn_calls[c].override_models
       IN IF Len(override_models) >= 3
          THEN \E most_common \in MostCommon(override_models) :
                  user_preferences' =
                     IF Count(override_models, most_common) >= 2
                     THEN [user_preferences EXCEPT ![learn_calls[c].task_type] = most_common]
                     ELSE user_preferences
          ELSE user_preferences' = user_preferences
    /\ learn_calls' = [learn_calls EXCEPT ![c].pc = "done"]
    /\ UNCHANGED <<query, decision, usage_log>>
    /\ UNCHANGED notRouter

LearnNext ==
    \/ LearnCall
    \/ \E c \in 1..Len(learn_calls) : LearnCommit(c)
    \/ \E c \in 1..Len(learn_calls) : LearnQuery(c)
    \/ \E c \in 1..Len(learn_calls) : LearnUpdate(c)

SpecLearn == LearnInit /\ [][LearnNext]_vars

\* The same operations called one after the other, from an empty log, by a
\* user who overrides either to one model again or to a model not chosen
\* before (model_override is any model name the caller sends).
OtherModels == <<"m1", "m2", "m3", "m4", "m5", "m6", "m7", "m8", "m9", "m10", "m11", "m12">>

LearnSeqInit ==
    /\ ChunkIdle
    /\ EvalIdle
    /\ AgentIdle
    /\ IndexIdle
    /\ ContextIdle
    /\ ToolIdle
    /\ query = << >>
    /\ decision = NoDecision
    /\ user_preferences = NoPreferences
    /\ usage_log = << >>
    /\ learn_calls = << >>

\* learn_from_override is called when the call before it has returned
LearnCallInTurn ==
    /\ Len(learn_calls) < ManyCalls
    /\ Unfinished = {}
    /\ \E task \in LearnTasks :
       \E user_model \in {MODELS["balanced"],
                          OtherModels[(Len(learn_calls) % Len(OtherModels)) + 1]} :
         learn_calls' =
            Append(learn_calls,
                   [task_type |-> task, user_model |-> user_model, pc |-> "commit",
                    override_models |-> << >>, concurrent |-> FALSE])
    /\ UNCHANGED <<query, decision, user_preferences, usage_log>>
    /\ UNCHANGED notRouter

LearnSeqNext ==
    \/ LearnCallInTurn
    \/ \E c \in 1..Len(learn_calls) : LearnCommit(c)
    \/ \E c \in 1..Len(learn_calls) : LearnQuery(c)
    \/ \E c \in 1..Len(learn_calls) : LearnUpdate(c)

SpecLearnSeq == LearnSeqInit /\ [][LearnSeqNext]_vars

(***************************************************************************)
(* Claims about the learned preferences.                                   *)
(***************************************************************************)

\* no call found two models equally frequent, so that no outcome hangs on the
\* iteration order of a set
NoTies ==
    \A c \in 1..Len(learn_calls) :
        learn_calls[c].pc \in {"update", "done"} =>
            Cardinality(MostCommon(learn_calls[c].override_models)) <= 1

\* the last three calls were for the task and the model, each ran alone, and
\* every call has returned
ThreeConsecutive(task, user_model) ==
    /\ Len(learn_calls) >= 3
    /\ Unfinished = {}
    /\ \A c \in (Len(learn_calls) - 2)..Len(learn_calls) :
          /\ learn_calls[c].task_type = task
          /\ learn_calls[c].user_model = user_model
          /\ ~learn_calls[c].concurrent

\* C19: after three consecutive learn_from_override calls for a task to the
\* same user model, the next routing decision for the task selects that
\* model, whatever the complexity of the query.  Stated for the runs in which
\* no call met a tie between models.
C19_ThreeOverridesSelect ==
    \A task \in LearnTasks, user_model \in UserModels :
        (ThreeConsecutive(task, user_model) /\ NoTies) =>
            \A complexity \in Complexities :
                select_model(user_preferences, task, complexity) = user_model

\* the preferences that _update_preferences can derive from the whole log
Derived(task) ==
    LET override_models == RecentOverrides(usage_log, task)
    IN IF Len(override_models) >= 3
       THEN {m \in MostCommon(override_models) : Count(override_models, m) >= 2}
       ELSE {}

\* C20: when several learn_from_override calls for a task interleave, then
\* after all of them have returned the preference for the task is one
\* derived from the whole override log, not from an earlier read of it.
\* Stated for the runs in which no call met a tie between models.
C20_NoStaleWrite ==
    \A task \in LearnTasks :
        (/\ Unfinished = {}
         /\ Cardinality({c \in 1..Len(learn_calls) :
                            learn_calls[c].task_type = task /\ learn_calls[c].concurrent}) >= 2
         /\ NoTies
         /\ Cardinality(Derived(task)) = 1)
            => user_preferences[task] \in Derived(task)

\* C30: when every learn_from_override call has returned, the learned
\* preference of a task, if there is one, is a model that occurs at least 2
\* times among the 10 most recent override records of the task and is a
\* most frequent model among them.
C30_PreferenceSupported ==
    \A task \in LearnTasks :
        (Unfinished = {} /\ learn_calls # << >> /\ user_preferences[task] # None)
            => LET override_models == RecentOverrides(usage_log, task)
               IN /\ Count(override_models, user_preferences[task]) >= 2
                  /\ user_preferences[task] \in MostCommon(override_models)

(***************************************************************************)
(* The file read tool: FileReadTool.execute (agent_service.py 177-205).    *)
(* A path is a sequence of components below the root and a component a     *)
(* sequence of characters, so that str(path) can be compared character by  *)
(* character as line 190 does.  The file system has no symbolic links:     *)
(* Path.resolve() then only removes the ".." components.                   *)
(***************************************************************************)
Up == <<".", ".">>

\* Path.home(), and settings.DATA_DIR = BASE_DIR / "data"
Home == << <<"h">> >>
DATA_DIR == << <<"b">>, <<"d">> >>

\* lines 184-188
allowed_dirs == << Home \o << <<"D">> >>, Home \o << <<"K">> >>, DATA_DIR >>

\* the names of the components of the arguments: the directories above, a
\* sibling whose name starts with the name of an allowed one, a file, ".."
Names == {<<"h">>, <<"D">>, <<"D", "x">>, <<"K">>, <<"b">>, <<"d">>, <<"f">>, Up}

RECURSIVE PathsOf(_)
\* the absolute paths of up to n components
PathsOf(n) ==
    IF n = 0 THEN {<< >>}
    ELSE LET shorter == PathsOf(n - 1)
         IN shorter \cup {Append(q, c) : q \in {x \in shorter : Len(x) = n - 1}, c \in Names}

RECURSIVE ResolveFrom(_, _, _)
ResolveFrom(path, i, done) ==
    IF i > Len(path) THEN done
    ELSE IF path[i] = Up
         THEN ResolveFrom(path, i + 1,
                          IF done = << >> THEN done ELSE SubSeq(done, 1, Len(done) - 1))
         ELSE ResolveFrom(path, i + 1, Append(done, path[i]))

\* line 181: Path(file_path).resolve()
Resolve(path) == ResolveFrom(path, 1, << >>)

RECURSIVE Str(_)
\* str(path) of an absolute path: "/" for the root, else /c1/c2...
Str(path) ==
    IF path = << >> THEN <<"/">>
    ELSE IF Len(path) = 1 THEN <<"/">> \o path[1]
         ELSE Str(SubSeq(path, 1, Len(path) - 1)) \o <<"/">> \o path[Len(path)]

\* str.startswith
StartsWith(string, prefix) ==
    /\ Len(prefix) <= Len(string)
    /\ SubSeq(string, 1, Len(prefix)) = prefix

\* line 190: any(str(path).startswith(str(d)) for d in allowed_dirs)
Allowed(path) == \E i \in 1..Len(allowed_dirs) : StartsWith(Str(path), Str(allowed_dirs[i]))

AccessDenied ==
    [success |-> FALSE, error |-> "Access denied: file outside allowed directories",
     content |-> None]

\* lines 179-205
FileReadTool_execute(file_path, kind) ==
    LET path == Resolve(file_path)
    IN IF ~Allowed(path) THEN AccessDenied
       ELSE IF kind = "missing"
            THEN [success |-> FALSE, error |-> "File not found", content |-> None]
            ELSE IF kind = "unreadable"
                 THEN [success |-> FALSE, error |-> "str(e)", content |-> None]
                 ELSE [success |-> TRUE, error |-> None, content |-> "content"]

ReadInit ==
    /\ ChunkIdle
    /\ EvalIdle
    /\ AgentIdle
    /\ IndexIdle
    /\ ContextIdle
    /\ RouterIdle
    /\ rf_path \in PathsOf(MaxPathLen)
    /\ rf_kind \in {"missing", "file", "unreadable"}
    /\ rf_pc = "call"
    /\ rf_result = None

\* read_file is executed with file_path = rf_path
ReadFile ==
    /\ rf_pc = "call"
    /\ rf_result' = FileReadTool_execute(rf_path, rf_kind)
    /\ rf_pc' = "done"
    /\ UNCHANGED <<rf_path, rf_kind>>
    /\ UNCHANGED notTool

ReadNext == ReadFile

SpecRead == ReadInit /\ [][ReadNext]_vars

(***************************************************************************)
(* Claims about the file read tool.                                        *)
(***************************************************************************)

\* the directory is the path or one of the directories above it
Inside(path, dir) == Len(dir) <= Len(path) /\ SubSeq(path, 1, Len(dir)) = dir

\* C21: read_file returns the access-denied failure, and no content, for
\* every path that after resolution lies in none of the allowed
\* directories, a sibling directory whose name starts with the name of an
\* allowed one included.
C21_DeniedOutside ==
    (/\ rf_pc = "done"
     /\ \A i \in 1..Len(allowed_dirs) : ~Inside(Resolve(rf_path), allowed_dirs[i]))
        => rf_result = AccessDenied

====
